---- MODULE Spec2Model ----
(***************************************************************************)
(* Escrow settlement core of the marketplace server (ui_ecommerce):       *)
(* GET /paystack/verify creates an order from a payment verification,     *)
(* POST /order/:id/confirm/buyer and /seller record the two confirmations *)
(* and checkEscrowRelease credits the seller's wallet.                     *)
(*                                                                         *)
(* Every request is an async handler; its awaits (the gateway call and    *)
(* each store read or write) are the points where other handlers run, so  *)
(* each action below is the code between two awaits together with the     *)
(* store operation that ends it.  A request arrives with the first such   *)
(* step of its handler.                                                    *)
(*                                                                         *)
(* Money: the code holds amounts as JavaScript numbers in major currency  *)
(* units.  The model holds them as integers counting 1/Unit of a major    *)
(* unit (a tenth of a kobo), fine enough for the 10% fee of a whole       *)
(* number of kobo to be exact.                                             *)
(***************************************************************************)
EXTENDS Integers, Sequences, FiniteSets, TLC

\* ---------------------------------------------------------------- bounds
MaxOrders == 2
MaxRequests == 4

\* ------------------------------------------------------------- constants
\* verification.data.amount / 100: the gateway reports kobo.
KoboPerMajor == 100
\* productPrice * 0.10
FeePercent == 10

Unit == KoboPerMajor * 10
MinorUnit == Unit \div KoboPerMajor

\* ------------------------------------------------------------ the world
Procs == {"h1", "h2"}
NoUser == "anon"
Users == {"bob", "sal", "tom"}
ProductIds == {"pA", "pB"}
\* Product.seller_id of the products in the store.
ProductSeller == [pr \in ProductIds |-> IF pr = "pA" THEN "sal" ELSE "tom"]
\* A well-formed product id of no product in the store.
MissingProduct == "pX"
References == {"REF_1"}
OrderIds == 1 .. MaxOrders

\* The amount query parameter, a decimal string in major units, held as the
\* number of hundredths it denotes.
ClientAmounts == {10000}
\* data.amount of the gateway's answer, in kobo.
GatewayAmounts == {0, 1005, 10000}
\* Those of them that leave the order at the client's amount: none, or the
\* same amount in kobo.
AgreedAmounts == {0, 10000}

\* What axios.get resolves to, or null when it throws (verifyPayment's catch).
GwNull == [isNull |-> TRUE, status |-> FALSE, hasAmount |-> FALSE, amount |-> 0]
GwAnswer(s, h, a) == [isNull |-> FALSE, status |-> s, hasAmount |-> h, amount |-> a]
GatewayResponsesOf(amounts) ==
    {GwNull, GwAnswer(FALSE, FALSE, 0), GwAnswer(TRUE, FALSE, 0)}
        \cup {GwAnswer(TRUE, TRUE, a) : a \in amounts}
GatewayResponses == GatewayResponsesOf(GatewayAmounts)

\* What axios.get(...) does: it rejects on a transport failure or timeout and
\* on a status outside 2xx, and resolves with response.data otherwise.  Of a
\* body that is not the gateway's JSON object the handler reads .status as
\* undefined and no .data.
Rejected(k) == [throws |-> TRUE, kind |-> k, data |-> GwNull]
Resolved(k, d) == [throws |-> FALSE, kind |-> k, data |-> d]
GatewayBehavioursOf(amounts) ==
    {Rejected("transport failure"), Rejected("non-2xx"),
     Resolved("malformed body", GwAnswer(FALSE, FALSE, 0))}
        \cup {Resolved("answer", d) : d \in GatewayResponsesOf(amounts) \ {GwNull}}
GatewayBehaviours == GatewayBehavioursOf(GatewayAmounts)

NoOrder == [buyer_id |-> NoUser, product_id |-> "pA", amount |-> 0, service_fee |-> 0,
            seller_amount |-> 0, status |-> "none", payment_reference |-> "REF_1",
            buyer_confirmed |-> FALSE, seller_confirmed |-> FALSE,
            escrow_released |-> FALSE]
NoReq == [kind |-> "none", user |-> NoUser, id |-> 1, reference |-> "REF_1",
          productId |-> "pA", amount |-> 0]

VARIABLES
    sandbox,      \* PAYSTACK_SECRET_KEY.startsWith('sk_test_placeholder')
    orders,       \* the orders collection, by _id
    wallet,       \* User.wallet_balance
    credited,     \* history: number of wallet increments issued for each order
    pc,           \* where each handler stands
    req,          \* the request a handler serves
    order,        \* the order document a handler holds in memory
    productPrice, \* local of /paystack/verify
    isVerified,   \* local of /paystack/verify
    verification, \* local of /paystack/verify: verifyPayment's result
    resp,         \* what the handler sent
    started,      \* requests received so far
    repeat,       \* history (serial runs): the request repeats the one before it
    fullBy        \* history: the handler whose save made each order fully confirmed

store == <<orders, wallet, credited>>
locals == <<pc, req, order, productPrice, isVerified, verification, resp>>
ghost == <<repeat, fullBy>>
vars == <<sandbox, orders, wallet, credited, pc, req, order, productPrice,
          isVerified, verification, resp, started, repeat, fullBy>>

Init ==
    /\ sandbox \in BOOLEAN
    /\ orders = << >>
    /\ wallet = [u \in Users |-> 0]
    /\ credited = [o \in OrderIds |-> 0]
    /\ pc = [p \in Procs |-> "idle"]
    /\ req = [p \in Procs |-> NoReq]
    /\ order = [p \in Procs |-> NoOrder]
    /\ productPrice = [p \in Procs |-> 0]
    /\ isVerified = [p \in Procs |-> FALSE]
    /\ verification = [p \in Procs |-> GwNull]
    /\ resp = [p \in Procs |-> "none"]
    /\ started = 0
    /\ repeat = [p \in Procs |-> FALSE]
    /\ fullBy = [o \in OrderIds |-> "none"]

\* ----------------------------------------------------------- arithmetic
\* parseFloat(amount): the value of the decimal string, in model units.
ParseFloat(a) == a * MinorUnit
\* verification.data.amount / 100
GatewayPrice(a) == (a * Unit) \div KoboPerMajor
\* productPrice * 0.10 (no rounding in the code)
ServiceFee(price) == (price * FeePercent) \div 100
\* productPrice - serviceFee
SellerAmount(price) == price - ServiceFee(price)

\* -------------------------------------------------------------- helpers
Exists(id) == id \in 1 .. Len(orders)
\* The handler responds and returns: its locals are gone.
Finish(p, r) ==
    /\ pc' = [pc EXCEPT ![p] = "idle"]
    /\ resp' = [resp EXCEPT ![p] = r]
    /\ order' = [order EXCEPT ![p] = NoOrder]
    /\ productPrice' = [productPrice EXCEPT ![p] = 0]
    /\ isVerified' = [isVerified EXCEPT ![p] = FALSE]
    /\ verification' = [verification EXCEPT ![p] = GwNull]
\* The handler of a new request awaits its next store operation.
Begin(p, l) ==
    /\ pc' = [pc EXCEPT ![p] = l]
    /\ resp' = [resp EXCEPT ![p] = "none"]
\* The handler awaits its next store operation.
Goto(p, l) ==
    /\ pc' = [pc EXCEPT ![p] = l]
    /\ UNCHANGED resp
InFlightVerify == Cardinality({p \in Procs : pc[p] = "verify_create"})

\* ------------------------------------------------- GET /paystack/verify
\* Variant: verifyPayment without its try/catch.
VerifyPaymentNoCatch(b) == [threw |-> b.throws, value |-> b.data]
\* verifyPayment: try { const response = await axios.get(...); return
\* response.data } catch (error) { ...; return null }
VerifyPayment(b) ==
    IF b.throws THEN [threw |-> FALSE, value |-> GwNull]
    ELSE [threw |-> FALSE, value |-> b.data]

\* Variant: no sandbox fallback.
VerifiedNoFallback(v, sb) == ~v.isNull /\ v.status
\* Variant: any answer of the gateway is taken as a success.
VerifiedAnyAnswer(v, sb) == ~v.isNull \/ sb
\* if (verification && verification.status === true) { ... isVerified = true }
\* else if (PAYSTACK_SECRET_KEY.startsWith('sk_test_placeholder')) isVerified = true
Verified(v, sb) == (~v.isNull /\ v.status) \/ sb
\* productPrice: data.amount / 100 when the answer is accepted and data.amount
\* is truthy, parseFloat(amount) otherwise.
Price(v, a) ==
    IF ~v.isNull /\ v.status /\ v.hasAmount /\ v.amount # 0
    THEN GatewayPrice(v.amount)
    ELSE ParseFloat(a)

\* The request arrives (const { reference, productId, amount } = req.query),
\* await verifyPayment(reference) returns, and the handler decides.  The await
\* stands outside the handler's try: were verifyPayment to throw, the handler
\* would end in an unhandled rejection without a response.  products are the
\* ids the productId query parameter is drawn from (the handler does not look
\* the product up), amounts the values of data.amount the gateway may report.
VerifyFor(p, products, amounts) ==
    /\ pc[p] = "idle"
    /\ started < MaxRequests
    /\ Len(orders) + InFlightVerify < MaxOrders
    /\ started' = started + 1
    /\ \E u \in {"bob", NoUser}, ref \in References, pr \in products,
          a \in ClientAmounts,
          r \in {VerifyPayment(b) : b \in GatewayBehavioursOf(amounts)} :
          LET v == r.value IN
          /\ req' = [req EXCEPT ![p] = [kind |-> "verify", user |-> u, id |-> 1,
                                        reference |-> ref, productId |-> pr,
                                        amount |-> a]]
          /\ IF r.threw
             THEN Finish(p, "unhandled rejection")
             ELSE IF Verified(v, sandbox)
             THEN /\ verification' = [verification EXCEPT ![p] = v]
                  /\ productPrice' = [productPrice EXCEPT ![p] = Price(v, a)]
                  /\ isVerified' = [isVerified EXCEPT ![p] = TRUE]
                  /\ Begin(p, "verify_create")
                  /\ UNCHANGED order
             ELSE Finish(p, "Payment verification failed.")
    /\ UNCHANGED <<sandbox, store>>

\* The request names a product of the store and the gateway, when it reports
\* an amount, reports the client's.
VerifyCall(p) == VerifyFor(p, ProductIds, AgreedAmounts)
\* The gateway may report an amount of its own.
VerifyCallAnyAmount(p) == VerifyFor(p, ProductIds, GatewayAmounts)
\* The request names a product of the store or an id of no product.
VerifyCallAnyProduct(p) == VerifyFor(p, {"pA", MissingProduct}, AgreedAmounts)

\* An order as the verify route creates it for a payment of the client's
\* amount that bob made for product pr.
PaidOrder(pr) ==
    [buyer_id |-> "bob", product_id |-> pr,
     amount |-> ParseFloat(10000),
     service_fee |-> ServiceFee(ParseFloat(10000)),
     seller_amount |-> SellerAmount(ParseFloat(10000)),
     status |-> "paid", payment_reference |-> "REF_1",
     buyer_confirmed |-> FALSE, seller_confirmed |-> FALSE,
     escrow_released |-> FALSE]
\* Variant: the order starts as pending.
NewOrderPending(p) ==
    [buyer_id |-> req[p].user, product_id |-> req[p].productId,
     amount |-> productPrice[p],
     service_fee |-> ServiceFee(productPrice[p]),
     seller_amount |-> SellerAmount(productPrice[p]),
     status |-> "pending", payment_reference |-> req[p].reference,
     buyer_confirmed |-> FALSE, seller_confirmed |-> FALSE,
     escrow_released |-> FALSE]
\* The request arrives and the gateway never answers: axios.get is called
\* without a timeout option, so the promise verifyPayment awaits never settles
\* and the handler has no further step.
VerifyCallSilent(p) ==
    /\ pc[p] = "idle"
    /\ started < MaxRequests
    /\ started' = started + 1
    /\ \E u \in {"bob", NoUser}, ref \in References, pr \in ProductIds, a \in ClientAmounts :
          req' = [req EXCEPT ![p] = [kind |-> "verify", user |-> u, id |-> 1,
                                     reference |-> ref, productId |-> pr, amount |-> a]]
    /\ Begin(p, "verify_wait")
    /\ UNCHANGED <<sandbox, store, order, productPrice, isVerified, verification>>

\* Variant: every request counts as carrying a session user.
HasSessionAlways(u) == TRUE
\* req.session.user is set: the confirm routes test it first, and the verify
\* route reads req.session.user._id when it builds the document.
HasSession(u) == u # NoUser

\* The document Order.create is given.
NewOrder(p) ==
    [buyer_id |-> req[p].user, product_id |-> req[p].productId,
     amount |-> productPrice[p],
     service_fee |-> ServiceFee(productPrice[p]),
     seller_amount |-> SellerAmount(productPrice[p]),
     status |-> "paid", payment_reference |-> req[p].reference,
     buyer_confirmed |-> FALSE, seller_confirmed |-> FALSE,
     escrow_released |-> FALSE]

\* await Order.create({...}); req.session.user._id throws without a session
\* user, inside the try.
VerifyCreate(p) ==
    /\ pc[p] = "verify_create"
    /\ IF ~HasSession(req[p].user)
       THEN /\ Finish(p, "Error processing order")
            /\ UNCHANGED orders
       ELSE /\ orders' = Append(orders, NewOrder(p))
            /\ Finish(p, "Payment Successful!")
    /\ UNCHANGED <<sandbox, wallet, credited, req, started>>

\* ------------------------------------------- POST /order/:id/confirm/...
\* Variant: the order is looked up by its id alone.
BuyerFindsAnyUser(id, user) == Exists(id)
\* Order.findOne({ _id: req.params.id, buyer_id: req.session.user._id }) finds
\* a document.
BuyerFinds(id, user) == Exists(id) /\ orders[id].buyer_id = user
\* Order.findById(id).populate('product_id') finds a document whose product
\* populates with the session's user as seller_id: if (!order ||
\* !order.product_id || order.product_id.seller_id.toString() !== ...)
SellerFinds(id, user) ==
    /\ Exists(id)
    /\ orders[id].product_id \in ProductIds
    /\ ProductSeller[orders[id].product_id] = user
Finds(role, id, user) ==
    IF role = "buyer" THEN BuyerFinds(id, user) ELSE SellerFinds(id, user)

\* Variant: a missing order and an order of other parties are told apart.
RejectionTelling(id) == IF Exists(id) THEN "Unauthorized" ELSE "Order not found"
\* return res.send("Order not found or unauthorized"), on both routes
Rejection(id) == "Order not found or unauthorized"

\* The request arrives for order :id with the session's user, on either route:
\* if (!req.session.user) return res.redirect('/login'); then the find, the
\* rejection, and the assignment order.<role>_confirmed = true on the document.
ConfirmFind(p) ==
    /\ pc[p] = "idle"
    /\ started < MaxRequests
    /\ started' = started + 1
    /\ \E u \in Users \cup {NoUser}, id \in OrderIds, role \in {"buyer", "seller"} :
          /\ req' = [req EXCEPT ![p] = [kind |-> role, user |-> u, id |-> id,
                                        reference |-> "REF_1", productId |-> "pA",
                                        amount |-> 0]]
          /\ IF ~HasSession(u)
             THEN Finish(p, "redirect /login")
             ELSE IF ~Finds(role, id, u)
             THEN Finish(p, Rejection(id))
             ELSE /\ order' = [order EXCEPT ![p] = orders[id]]
                  /\ Begin(p, "confirm_save")
                  /\ UNCHANGED <<productPrice, isVerified, verification>>
    /\ UNCHANGED <<sandbox, store>>

\* The confirmation field of a role.
Flag(role) == IF role = "buyer" THEN "buyer_confirmed" ELSE "seller_confirmed"

\* Variant: the save sets both confirmations.
SaveConfirmedBoth(doc, loaded, role) ==
    [doc EXCEPT !.buyer_confirmed = TRUE, !.seller_confirmed = TRUE]
\* Variant: the save writes the whole document as the handler loaded it.
SaveConfirmedWhole(doc, loaded, role) == [loaded EXCEPT ![Flag(role)] = TRUE]
\* await order.save(): mongoose writes the modified paths only, here the
\* role's flag when the loaded document did not have it set.
SaveConfirmed(doc, loaded, role) ==
    IF loaded[Flag(role)] THEN doc ELSE [doc EXCEPT ![Flag(role)] = TRUE]

ConfirmSave(p) ==
    /\ pc[p] = "confirm_save"
    /\ orders' = [orders EXCEPT ![req[p].id] = SaveConfirmed(@, order[p], req[p].kind)]
    /\ Goto(p, "release_find")
    /\ UNCHANGED <<sandbox, wallet, credited, req, order, productPrice, isVerified,
                   verification, started>>

\* ------------------------------------------------- checkEscrowRelease
\* Variant: the guard never lets a release through.
ReleaseGuardNever(doc) == FALSE
\* Variant: one confirmation is enough.
ReleaseGuardEither(doc) ==
    (doc.buyer_confirmed \/ doc.seller_confirmed) /\ ~doc.escrow_released
\* Variant: the guard does not look at escrow_released.
ReleaseGuardAgain(doc) == doc.buyer_confirmed /\ doc.seller_confirmed
\* if (order.buyer_confirmed && order.seller_confirmed && !order.escrow_released)
ReleaseGuard(doc) ==
    doc.buyer_confirmed /\ doc.seller_confirmed /\ ~doc.escrow_released

\* Variant: the check looks at the document the route already holds.
ReleaseReadsHeld(p) == [order[p] EXCEPT ![Flag(req[p].kind)] = TRUE]
\* const order = await Order.findById(orderId).populate('product_id'): the
\* document as the store holds it now.
ReleaseReads(p) == orders[req[p].id]

\* await Order.findById(orderId).populate('product_id'), then the guard and
\* order.product_id.seller_id, which throws into the catch when the product
\* did not populate.
ReleaseFind(p) ==
    /\ pc[p] = "release_find"
    /\ IF ReleaseGuard(ReleaseReads(p)) /\ ReleaseReads(p).product_id \notin ProductIds
       THEN Finish(p, "Error releasing escrow")
       ELSE IF ReleaseGuard(ReleaseReads(p))
       THEN /\ order' = [order EXCEPT ![p] = ReleaseReads(p)]
            /\ Goto(p, "release_inc")
            /\ UNCHANGED <<productPrice, isVerified, verification>>
       ELSE Finish(p, "redirect back")
    /\ UNCHANGED <<sandbox, store, req, started>>

\* Variant: the order's buyer is credited.
ReleaseSellerBuyer(doc) == doc.buyer_id
\* const sellerId = order.product_id.seller_id
ReleaseSeller(doc) == ProductSeller[doc.product_id]
\* Product.price of the products in the store (price: Number), the price the
\* client's amount parameter is built from.
ProductPrice == [pr \in ProductIds |-> 100 * Unit]
\* Variant: the amount is recomputed from the product's price at release.
ReleaseAmountFromProduct(doc) == SellerAmount(ProductPrice[doc.product_id])
\* Variant: the whole amount is released.
ReleaseAmountFull(doc) == doc.amount
\* const releaseAmount = order.seller_amount
ReleaseAmount(doc) == doc.seller_amount

\* Variant: the balance is written, not incremented.
IncWalletSet(w, seller, amount) == [w EXCEPT ![seller] = amount]
\* { $inc: { wallet_balance: releaseAmount } }: the store adds to the balance
\* it holds when the update arrives.
IncWallet(w, seller, amount) == [w EXCEPT ![seller] = @ + amount]

\* await User.findByIdAndUpdate(sellerId, { $inc: { wallet_balance: releaseAmount } })
ReleaseInc(p) ==
    /\ pc[p] = "release_inc"
    /\ wallet' = IncWallet(wallet, ReleaseSeller(order[p]), ReleaseAmount(order[p]))
    /\ credited' = [credited EXCEPT ![req[p].id] = @ + 1]
    /\ Goto(p, "release_save")
    /\ UNCHANGED <<sandbox, orders, req, order, productPrice, isVerified,
                   verification, started>>

\* Variant: the save writes the flag and leaves the status.
SaveReleasedFlagOnly(doc) == [doc EXCEPT !.escrow_released = TRUE]
\* order.escrow_released = true; order.status = 'completed'; await order.save()
SaveReleased(doc) == [doc EXCEPT !.escrow_released = TRUE, !.status = "completed"]

ReleaseSave(p) ==
    /\ pc[p] = "release_save"
    /\ orders' = [orders EXCEPT ![req[p].id] = SaveReleased(@)]
    /\ Finish(p, "redirect back")
    /\ UNCHANGED <<sandbox, wallet, credited, req, started>>

\* ------------------------------------------------------ store failures
\* The store operation a handler awaits rejects: the handler's catch sends msg
\* and nothing is written.
Fails(p, at, msg) ==
    /\ pc[p] = at
    /\ Finish(p, msg)
    /\ UNCHANGED <<sandbox, store, req, started>>
\* catch (err) { console.error(err); res.send("Error processing order") }
VerifyCreateFails(p) == Fails(p, "verify_create", "Error processing order")
\* catch (err) { console.error(err); res.send("Error confirming order") }
ConfirmSaveFails(p) == Fails(p, "confirm_save", "Error confirming order")
\* catch (err) { console.error(err); res.send("Error releasing escrow") }, from
\* the findById, from the $inc, and from the order.save() after the $inc.
ReleaseFindFails(p) == Fails(p, "release_find", "Error releasing escrow")
\* Variant: the rejection of the $inc is swallowed and the handler goes on to
\* mark the order.
ReleaseIncIgnoresFailure(p) ==
    /\ pc[p] = "release_inc"
    /\ Goto(p, "release_save")
    /\ UNCHANGED <<sandbox, store, req, order, productPrice, isVerified,
                   verification, started>>
ReleaseIncFails(p) == Fails(p, "release_inc", "Error releasing escrow")
ReleaseSaveFails(p) == Fails(p, "release_save", "Error releasing escrow")

\* ------------------------------------------------------ specifications
\* Any handler takes its next step: the requests interleave at their awaits.
\* The amounts the gateway reports are the clients'.
Next ==
    \E p \in Procs :
        \/ VerifyCall(p) /\ UNCHANGED ghost
        \/ VerifyCreate(p) /\ UNCHANGED ghost
        \/ ConfirmFind(p) /\ UNCHANGED ghost
        \/ ConfirmSave(p) /\ UNCHANGED ghost
        \/ ReleaseFind(p) /\ UNCHANGED ghost
        \/ ReleaseInc(p) /\ UNCHANGED ghost
        \/ ReleaseSave(p) /\ UNCHANGED ghost

Spec == Init /\ [][Next]_vars

\* One request at a time: a single handler serves the requests one after the
\* other, each to its response, and the gateway may report any amount.
\* repeat records that a request is the same as
\* the one served just before it.
Serial == "h1"
Track(p) ==
    /\ repeat' = [repeat EXCEPT ![p] = IF pc[p] = "idle" THEN req'[p] = req[p] ELSE @]
    /\ UNCHANGED fullBy
NextSeq ==
    \/ VerifyCallAnyAmount(Serial) /\ Track(Serial)
    \/ VerifyCreate(Serial) /\ Track(Serial)
    \/ ConfirmFind(Serial) /\ Track(Serial)
    \/ ConfirmSave(Serial) /\ Track(Serial)
    \/ ReleaseFind(Serial) /\ Track(Serial)
    \/ ReleaseInc(Serial) /\ Track(Serial)
    \/ ReleaseSave(Serial) /\ Track(Serial)

SpecSeq == Init /\ [][NextSeq]_vars

\* One request at a time, and the productId of a verify request may be the id
\* of no product.
NextAnyProduct ==
    \/ VerifyCallAnyProduct(Serial) /\ Track(Serial)
    \/ VerifyCreate(Serial) /\ Track(Serial)
    \/ ConfirmFind(Serial) /\ Track(Serial)
    \/ ConfirmSave(Serial) /\ Track(Serial)
    \/ ReleaseFind(Serial) /\ Track(Serial)
    \/ ReleaseInc(Serial) /\ Track(Serial)
    \/ ReleaseSave(Serial) /\ Track(Serial)

SpecAnyProduct == Init /\ [][NextAnyProduct]_vars

\* One request at a time, and any store write or read of a handler under way
\* may fail.
NextFail ==
    \/ VerifyCall(Serial) /\ Track(Serial)
    \/ VerifyCreate(Serial) /\ Track(Serial)
    \/ VerifyCreateFails(Serial) /\ Track(Serial)
    \/ ConfirmFind(Serial) /\ Track(Serial)
    \/ ConfirmSave(Serial) /\ Track(Serial)
    \/ ConfirmSaveFails(Serial) /\ Track(Serial)
    \/ ReleaseFind(Serial) /\ Track(Serial)
    \/ ReleaseFindFails(Serial) /\ Track(Serial)
    \/ ReleaseInc(Serial) /\ Track(Serial)
    \/ ReleaseIncFails(Serial) /\ Track(Serial)
    \/ ReleaseSave(Serial) /\ Track(Serial)
    \/ ReleaseSaveFails(Serial) /\ Track(Serial)

SpecFail == Init /\ [][NextFail]_vars

\* The handlers interleave as in Spec, and fullBy records for each order the
\* handler whose order.save() set the second of the two confirmations.
BothConfirmed(doc) == doc.buyer_confirmed /\ doc.seller_confirmed
TrackFull(p) ==
    /\ fullBy' = IF /\ pc[p] = "confirm_save"
                    /\ ~BothConfirmed(orders[req[p].id])
                    /\ BothConfirmed(orders'[req[p].id])
                 THEN [fullBy EXCEPT ![req[p].id] = p]
                 ELSE fullBy
    /\ UNCHANGED repeat
NextHist ==
    \E p \in Procs :
        \/ VerifyCall(p) /\ TrackFull(p)
        \/ VerifyCreate(p) /\ TrackFull(p)
        \/ ConfirmFind(p) /\ TrackFull(p)
        \/ ConfirmSave(p) /\ TrackFull(p)
        \/ ReleaseFind(p) /\ TrackFull(p)
        \/ ReleaseInc(p) /\ TrackFull(p)
        \/ ReleaseSave(p) /\ TrackFull(p)

SpecHist == Init /\ [][NextHist]_vars

\* Two paid orders of one seller's product are in the store and the handlers
\* serve confirm requests, interleaved.
InitTwoOrders ==
    /\ sandbox = FALSE
    /\ orders = <<PaidOrder("pA"), PaidOrder("pA")>>
    /\ wallet = [u \in Users |-> 0]
    /\ credited = [o \in OrderIds |-> 0]
    /\ pc = [p \in Procs |-> "idle"]
    /\ req = [p \in Procs |-> NoReq]
    /\ order = [p \in Procs |-> NoOrder]
    /\ productPrice = [p \in Procs |-> 0]
    /\ isVerified = [p \in Procs |-> FALSE]
    /\ verification = [p \in Procs |-> GwNull]
    /\ resp = [p \in Procs |-> "none"]
    /\ started = 0
    /\ repeat = [p \in Procs |-> FALSE]
    /\ fullBy = [o \in OrderIds |-> "none"]
NextConfirm ==
    \E p \in Procs :
        \/ ConfirmFind(p) /\ UNCHANGED ghost
        \/ ConfirmSave(p) /\ UNCHANGED ghost
        \/ ReleaseFind(p) /\ UNCHANGED ghost
        \/ ReleaseInc(p) /\ UNCHANGED ghost
        \/ ReleaseSave(p) /\ UNCHANGED ghost

SpecTwoOrders == InitTwoOrders /\ [][NextConfirm]_vars

\* One request at a time, and the gateway may fail to answer.
NextSilent ==
    \/ VerifyCall(Serial) /\ Track(Serial)
    \/ VerifyCallSilent(Serial) /\ Track(Serial)
    \/ VerifyCreate(Serial) /\ Track(Serial)
    \/ ConfirmFind(Serial) /\ Track(Serial)
    \/ ConfirmSave(Serial) /\ Track(Serial)
    \/ ReleaseFind(Serial) /\ Track(Serial)
    \/ ReleaseInc(Serial) /\ Track(Serial)
    \/ ReleaseSave(Serial) /\ Track(Serial)

SpecSilent == Init /\ [][NextSilent]_vars

\* ------------------------------------------------------------- properties
AllIdle == \A p \in Procs : pc[p] = "idle"
Roles == {"buyer", "seller"}
\* The handler that takes the step.
Acts(p) == pc'[p] # pc[p]
\* The seller of an order: the seller of its product.
SellerOf(o) == ProductSeller[orders[o].product_id]
\* What the released orders of seller u owe u: the sum of their seller_amount.
RECURSIVE Due(_, _)
Due(u, n) ==
    IF n = 0 THEN 0
    ELSE Due(u, n - 1)
         + (IF SellerOf(n) = u /\ orders[n].escrow_released
            THEN orders[n].seller_amount ELSE 0)

\* C1: exactly-once release under concurrency.  For every order, however the
\* buyer's and seller's confirm requests interleave, the wallet is incremented
\* for it at most once, and once every handler has responded each seller's
\* balance is the sum of seller_amount over that seller's released orders.
C1_ExactlyOnceRelease ==
    /\ \A o \in OrderIds : credited[o] <= 1
    /\ AllIdle => \A u \in Users : wallet[u] = Due(u, Len(orders))

\* C2: no release without both confirmations.  An order that lacks a
\* confirmation has caused no wallet increment, is not released and has
\* status paid.
C2_NoReleaseWithoutBoth ==
    \A o \in 1 .. Len(orders) :
        ~(orders[o].buyer_confirmed /\ orders[o].seller_confirmed)
            => /\ credited[o] = 0
               /\ ~orders[o].escrow_released
               /\ orders[o].status = "paid"

\* A confirm of the buyer alone has run its release check and responded.
C2_Witness ==
    \E p \in Procs :
        /\ AllIdle
        /\ req[p].kind = "buyer" /\ resp[p] = "redirect back"
        /\ Exists(req[p].id)
        /\ orders[req[p].id].buyer_confirmed
        /\ ~orders[req[p].id].seller_confirmed
        /\ orders[req[p].id].status = "paid"

\* C3: on every order, escrow_released implies buyer_confirmed,
\* seller_confirmed and status completed.
C3_ReleasedImpliesConfirmed ==
    \A o \in 1 .. Len(orders) :
        orders[o].escrow_released
            => /\ orders[o].buyer_confirmed
               /\ orders[o].seller_confirmed
               /\ orders[o].status = "completed"

\* An order has been released.
C3_Witness ==
    \E o \in 1 .. Len(orders) : orders[o].escrow_released /\ credited[o] >= 1

\* C4: release atomicity.  No state shows the wallet incremented for an order
\* whose escrow_released is still false, nor escrow_released true without the
\* increment.
C4_ReleaseAtomic ==
    \A o \in 1 .. Len(orders) : (credited[o] > 0) <=> orders[o].escrow_released

C6_ExactFeeSplit ==
    \A o \in 1 .. Len(orders) :
        /\ orders[o].amount = orders[o].service_fee + orders[o].seller_amount
        /\ orders[o].service_fee * 100 = orders[o].amount * FeePercent
        /\ orders[o].service_fee % MinorUnit = 0
        /\ orders[o].seller_amount % MinorUnit = 0

\* C7: confirm idempotence.  When the same confirm (order, user, role) is run
\* a second time right after the first, no step of the second run changes an
\* order or a wallet balance.
C7_ConfirmIdempotent ==
    [][\A p \in Procs :
          (Acts(p) /\ repeat'[p] /\ req'[p].kind \in Roles)
              => orders' = orders /\ wallet' = wallet]_vars

\* The seller's confirm that released the order has been run a second time.
C7_Witness ==
    /\ pc[Serial] = "idle" /\ repeat[Serial]
    /\ req[Serial].kind = "seller" /\ resp[Serial] = "redirect back"
    /\ Exists(req[Serial].id)
    /\ orders[req[Serial].id].escrow_released
    /\ wallet[SellerOf(req[Serial].id)] = orders[req[Serial].id].seller_amount

\* The acting user of a confirm request is the party its role names.
Authorized(r) ==
    /\ Exists(r.id)
    /\ r.user # NoUser
    /\ IF r.kind = "buyer"
       THEN r.user = orders[r.id].buyer_id
       ELSE r.user = ProductSeller[orders[r.id].product_id]

\* C8: confirm authorization.  A confirm changes an order or a wallet only
\* when its acting user is the order's buyer (buyer role) or the seller of the
\* order's product (seller role); for any other user the lookup ends the
\* request with a rejection and orders and wallets are unchanged.
C8_ConfirmAuthorization ==
    [][\A p \in Procs :
          (Acts(p) /\ req'[p].kind \in Roles)
              => /\ (orders' # orders \/ wallet' # wallet) => Authorized(req'[p])
                 /\ (pc[p] = "idle" /\ ~Authorized(req'[p]))
                       => /\ pc'[p] = "idle"
                          /\ resp'[p] \in {"Order not found or unauthorized",
                                           "redirect /login"}
                          /\ orders' = orders /\ wallet' = wallet]_vars

\* A user who is not the seller of an existing order's product was rejected,
\* and the order has no confirmation.
C8_Witness ==
    \E p \in Procs :
        /\ pc[p] = "idle" /\ req[p].kind = "seller" /\ req[p].user \in Users
        /\ Exists(req[p].id) /\ ~Authorized(req[p])
        /\ resp[p] = "Order not found or unauthorized"
        /\ ~orders[req[p].id].seller_confirmed

\* C9: sequential settlement.  Every order records 10% of its amount as
\* service_fee and 90% as seller_amount (10000 kobo: 1000 and 9000); with the
\* requests served one after the other, once both parties have confirmed the
\* order is released with status completed, the wallet was incremented once
\* for it, and each seller's balance is the sum of seller_amount over the
\* seller's released orders.
C9_SequentialSettlement ==
    /\ \A o \in 1 .. Len(orders) :
          /\ orders[o].service_fee * 100 = orders[o].amount * FeePercent
          /\ orders[o].seller_amount * 100 = orders[o].amount * (100 - FeePercent)
          /\ orders[o].amount = 10000 * MinorUnit
                => /\ orders[o].service_fee = 1000 * MinorUnit
                   /\ orders[o].seller_amount = 9000 * MinorUnit
          /\ (pc[Serial] = "idle"
              /\ orders[o].buyer_confirmed /\ orders[o].seller_confirmed)
                => /\ orders[o].status = "completed"
                   /\ orders[o].escrow_released
                   /\ credited[o] = 1
    /\ pc[Serial] = "idle" => \A u \in Users : wallet[u] = Due(u, Len(orders))

\* An order of 10000 kobo was confirmed by the buyer, then by the seller, whose
\* confirm has just responded: the seller holds 9000 kobo.
C9_Witness ==
    /\ pc[Serial] = "idle" /\ req[Serial].kind = "seller"
    /\ Len(orders) = 1
    /\ orders[1].amount = 10000 * MinorUnit
    /\ orders[1].status = "completed"
    /\ wallet[SellerOf(1)] = 9000 * MinorUnit

\* C10: the gateway's amount is authoritative.  Whenever the handler creates
\* an order after the gateway answered with success and reported an amount,
\* the order's amount is the gateway's amount, and the fee split is that of
\* the gateway's amount, whatever amount the client sent.
C10_GatewayAmountAuthoritative ==
    [][\A p \in Procs :
          (/\ Acts(p) /\ pc[p] = "verify_create"
           /\ Len(orders') = Len(orders) + 1
           /\ ~verification[p].isNull /\ verification[p].status
           /\ verification[p].hasAmount)
              => LET new == orders'[Len(orders')]
                     paid == GatewayPrice(verification[p].amount)
                 IN  /\ new.amount = paid
                     /\ new.service_fee + new.seller_amount = paid]_vars

\* A gateway behaviour that is not a successful verification.
GatewayFailure(b) == b.throws \/ b.kind = "malformed body" \/ ~b.data.status
\* The gateway's answer a handler holds is a successful verification.
Accepted(v) == ~v.isNull /\ v.status

\* C11 as stated: verification failures are data.  verifyPayment never lets an
\* exception reach the request handler, and whatever it returns for a failing
\* gateway (transport failure, non-2xx, malformed body, non-success status) the
\* handler treats as not verified: it never goes on to create the order.
C11_FailuresAreData ==
    /\ \A p \in Procs : resp[p] # "unhandled rejection"
    /\ \A b \in GatewayBehaviours : ~VerifyPayment(b).threw
    /\ \A p \in Procs : pc[p] = "verify_create" => Accepted(verification[p])

\* C11 amended: verifyPayment never lets an exception reach the request
\* handler in any mode, and outside sandbox mode every failing gateway
\* behaviour is treated as not verified; in sandbox mode the fallback accepts
\* the payment all the same.
C11_FailuresAreDataOutsideSandbox ==
    /\ \A p \in Procs : resp[p] # "unhandled rejection"
    /\ \A b \in GatewayBehaviours :
          /\ ~VerifyPayment(b).threw
          /\ (GatewayFailure(b) /\ ~sandbox) => ~Verified(VerifyPayment(b).value, sandbox)
    /\ \A p \in Procs :
          (~sandbox /\ pc[p] = "verify_create") => Accepted(verification[p])
\* Outside sandbox mode two verifications in a row met a failing gateway and
\* both were answered with the failure page, no order created.
C11_Witness ==
    /\ ~sandbox /\ Len(orders) = 0
    /\ \A p \in Procs : /\ pc[p] = "idle" /\ req[p].kind = "verify"
                         /\ resp[p] = "Payment verification failed."
\* The order a step has just appended.
Created == orders'[Len(orders')]
\* The step of handler p creates an order.
Creates(p) == Acts(p) /\ pc[p] = "verify_create" /\ Len(orders') = Len(orders) + 1
\* Handler p has answered a verify request with the failure page.
VerifyRefused(p) ==
    pc[p] = "idle" /\ req[p].kind = "verify" /\ resp[p] = "Payment verification failed."

\* C12 as stated: sandbox fallback.  In sandbox mode every verification is
\* taken as verified and, for a signed-in buyer, the order is created with the
\* client-proposed amount whatever the gateway call returned (no verification
\* is ever refused); outside sandbox
\* mode a handler goes on to create an order only on the gateway's success.
C12_SandboxFallback ==
    [][\A p \in Procs :
          /\ sandbox => ~VerifyRefused(p)'
          /\ pc'[p] = "verify_create" => isVerified'[p]
          /\ (sandbox /\ Acts(p) /\ pc[p] = "verify_create" /\ req[p].user # NoUser)
                => /\ Creates(p)
                   /\ Created.amount = ParseFloat(req[p].amount)
          /\ (~sandbox /\ pc'[p] = "verify_create") => Accepted(verification'[p])]_vars

\* C12 amended: as above, except that in sandbox mode the order carries the
\* client-proposed amount only when the fallback fired or the gateway's answer
\* had no (non-zero) amount; when the gateway itself answered success with an
\* amount, the order carries the gateway's amount.
C12_SandboxFallbackUnlessGatewayAmount ==
    [][\A p \in Procs :
          /\ sandbox => ~VerifyRefused(p)'
          /\ pc'[p] = "verify_create" => isVerified'[p]
          /\ (sandbox /\ Acts(p) /\ pc[p] = "verify_create" /\ req[p].user # NoUser)
                => /\ Creates(p)
                   /\ Created.amount =
                         IF /\ Accepted(verification[p]) /\ verification[p].hasAmount
                            /\ verification[p].amount # 0
                         THEN GatewayPrice(verification[p].amount)
                         ELSE ParseFloat(req[p].amount)
          /\ (~sandbox /\ pc'[p] = "verify_create") => Accepted(verification'[p])]_vars
\* In sandbox mode verifyPayment returned null, the fallback fired and the
\* handler is about to create the order with the client's amount.
C12_Witness ==
    \E p \in Procs :
        /\ sandbox /\ pc[p] = "verify_create" /\ verification[p].isNull
        /\ isVerified[p] /\ productPrice[p] = ParseFloat(req[p].amount)

\* C13: initial order state.  Every step that adds an order is the create of
\* a verify handler, adds exactly one order, leaves the earlier orders alone,
\* and the new order has status paid, no confirmation and escrow_released
\* false; the step changes no wallet balance.
C13_InitialOrderState ==
    [][Len(orders') # Len(orders)
          => /\ \E p \in Procs : Creates(p) /\ req[p].kind = "verify"
             /\ SubSeq(orders', 1, Len(orders)) = orders
             /\ Created.status = "paid"
             /\ ~Created.buyer_confirmed /\ ~Created.seller_confirmed
             /\ ~Created.escrow_released
             /\ wallet' = wallet /\ credited' = credited]_vars
\* A verify request has just been answered with the success page and its
\* order is the last of the store, untouched, every balance still zero.
C13_Witness ==
    \E p \in Procs :
        /\ pc[p] = "idle" /\ req[p].kind = "verify" /\ resp[p] = "Payment Successful!"
        /\ Len(orders) = 1 /\ orders[Len(orders)].status = "paid"
        /\ orders[Len(orders)].buyer_id = req[p].user
        /\ ~orders[Len(orders)].buyer_confirmed /\ ~orders[Len(orders)].seller_confirmed
        /\ \A u \in Users : wallet[u] = 0

\* C14: order creation requires an existing product.  A verify request whose
\* productId is the id of no product is not answered with the success page and
\* persists no order, so every order references a product with a seller.
C14_OrderRequiresProduct ==
    /\ \A o \in 1 .. Len(orders) : orders[o].product_id \in DOMAIN ProductSeller
    /\ \A p \in Procs :
          (pc[p] = "idle" /\ req[p].kind = "verify" /\ req[p].productId \notin ProductIds)
              => resp[p] # "Payment Successful!"

\* C15: monotone order fields.  In every step, whichever handlers interleave
\* and however stale the document a handler saves from, no order disappears,
\* buyer_confirmed, seller_confirmed and escrow_released never go from true to
\* false, the status is paid or completed and never leaves completed.
C15_MonotoneOrderFields ==
    [][/\ Len(orders') >= Len(orders)
       /\ \A o \in 1 .. Len(orders) :
             /\ orders[o].buyer_confirmed => orders'[o].buyer_confirmed
             /\ orders[o].seller_confirmed => orders'[o].seller_confirmed
             /\ orders[o].escrow_released => orders'[o].escrow_released
             /\ orders'[o].status \in {"paid", "completed"}
             /\ orders[o].status = "completed" => orders'[o].status = "completed"]_vars
\* The buyer's handler has saved from a document it read before the seller's
\* confirmation was written, and the seller's confirmation is still there.
C15_Witness ==
    \E p \in Procs :
        /\ pc[p] = "release_find" /\ req[p].kind = "buyer"
        /\ ~order[p].seller_confirmed
        /\ orders[req[p].id].seller_confirmed /\ orders[req[p].id].buyer_confirmed

\* C16: release check without effect.  Whenever the release check reads an
\* order for which buyer_confirmed && seller_confirmed && !escrow_released is
\* false, the handler changes no order and no wallet balance and returns, as
\* often as the check is repeated.
C16_ReleaseCheckNoEffect ==
    [][\A p \in Procs :
          (/\ Acts(p) /\ pc[p] = "release_find"
           /\ ~(/\ orders[req[p].id].buyer_confirmed
                /\ orders[req[p].id].seller_confirmed
                /\ ~orders[req[p].id].escrow_released))
              => /\ orders' = orders /\ wallet' = wallet /\ credited' = credited
                 /\ pc'[p] = "idle" /\ resp'[p] = "redirect back"]_vars
\* Two confirmations of the same released order have both run the release
\* check to its end, the later ones finding nothing to do: the wallet was
\* incremented once.
C16_Witness ==
    /\ AllIdle
    /\ \A p \in Procs : /\ req[p].kind = "seller" /\ req[p].id = 1
                         /\ resp[p] = "redirect back"
    /\ Exists(1) /\ orders[1].escrow_released /\ credited[1] = 1

Refused(p) ==
    /\ pc[p] = "idle" /\ req[p].kind \in Roles /\ req[p].user # NoUser
    /\ resp[p] # "redirect back"

\* C18: no existence leak on rejected confirm.  For each role and acting user,
\* confirm on an order id that does not exist and confirm on an existing order
\* the user is not party to are both turned down, with the same response: any
\* two confirm requests of one user in one role that were turned down got
\* identical responses.
C18_NoExistenceLeak ==
    /\ \A role \in Roles, u \in Users, i \in OrderIds, j \in OrderIds :
          (~Exists(i) /\ Exists(j) /\ ~Finds(role, j, u))
              => ~Finds(role, i, u) /\ Rejection(i) = Rejection(j)
    /\ \A p \in Procs, q \in Procs :
          (/\ Refused(p) /\ Refused(q)
           /\ req[p].user = req[q].user /\ req[p].kind = req[q].kind)
              => resp[p] = resp[q]
\* One user got two seller confirms turned down, one for an id of no order and
\* one for an order of other parties, and the two responses are the same.
C18_Witness ==
    \E p \in Procs, q \in Procs :
        /\ Refused(p) /\ Refused(q) /\ req[p].kind = "seller" /\ req[q].kind = "seller"
        /\ req[p].user = req[q].user
        /\ ~Exists(req[p].id)
        /\ Exists(req[q].id) /\ SellerOf(req[q].id) # req[q].user
        /\ resp[p] = resp[q]

\* The wallet increments issued for the orders 1 .. n that carry reference r.
RECURSIVE CreditsOf(_, _)
CreditsOf(r, n) ==
    IF n = 0 THEN 0
    ELSE CreditsOf(r, n - 1)
         + (IF orders[n].payment_reference = r THEN credited[n] ELSE 0)

\* C19: payment references are unique per order.  After any sequence of verify
\* requests, a replay of an already used reference included, no two orders
\* carry the same payment_reference, and the orders of one reference account
\* for at most one wallet increment.
C19_ReferenceUnique ==
    /\ \A i \in 1 .. Len(orders), j \in 1 .. Len(orders) :
          i # j => orders[i].payment_reference # orders[j].payment_reference
    /\ \A r \in References : CreditsOf(r, Len(orders)) <= 1

\* C20: at-most-once credit under failure.  With requests served one at a
\* time, even when the order.save() that follows the wallet increment fails
\* and a party then submits its confirmation again, the wallet is incremented
\* for an order at most once.
C20_AtMostOnceCreditUnderFailure ==
    \A o \in 1 .. Len(orders) : credited[o] <= 1

RECURSIVE Incremented(_, _)
Incremented(u, n) ==
    IF n = 0 THEN 0
    ELSE Incremented(u, n - 1)
         + (IF SellerOf(n) = u THEN credited[n] * orders[n].seller_amount ELSE 0)
NoLostUpdate == \A u \in Users : wallet[u] = Incremented(u, Len(orders))

\* C22: independence of distinct orders.  A step of a confirm handler serving
\* one order changes no field of any other order, and no wallet increment is
\* lost: each balance is the sum of the increments issued, so two orders of
\* one seller released concurrently leave the wallet increased by both
\* seller_amounts.
C22_DistinctOrdersIndependent ==
    [][/\ \A p \in Procs :
             (Acts(p) /\ pc[p] # "idle" /\ req[p].kind \in Roles)
                 => \A o \in 1 .. Len(orders) :
                       o # req[p].id => orders'[o] = orders[o] /\ credited'[o] = credited[o]
       /\ NoLostUpdate']_vars
\* The two handlers release the two orders of seller sal at the same time:
\* both increments are in the wallet and neither order is marked yet.
C22_Witness ==
    /\ pc["h1"] = "release_save" /\ pc["h2"] = "release_save"
    /\ req["h1"].id # req["h2"].id
    /\ SellerOf(1) = SellerOf(2)
    /\ credited[1] = 1 /\ credited[2] = 1
    /\ wallet[SellerOf(1)] = orders[1].seller_amount + orders[2].seller_amount

\* C23: contention is not surfaced.  A confirm by a party of the order never
\* ends in the failure page of the release step: a store conflict or write
\* failure there is retried and the confirm still succeeds.
C23_ContentionNotSurfaced ==
    \A p \in Procs :
        (pc[p] = "idle" /\ req[p].kind \in Roles /\ Authorized(req[p]))
            => resp[p] # "Error releasing escrow"

\* C24: verification always completes.  A verify handler that has not yet
\* responded always has a next step, whether or not the gateway answers: it
\* is never left waiting on a gateway call that nothing will end.
C24_VerificationCompletes ==
    \A p \in Procs :
        (pc[p] # "idle" /\ req[p].kind = "verify") => ENABLED NextSilent

\* No confirm handler is under way on order o.
Settled(o) ==
    \A p \in Procs : pc[p] = "idle" \/ req[p].kind \notin Roles \/ req[p].id # o

\* C25: release liveness, as a property of finite runs.  However the buyer's
\* and the seller's handlers interleave, once both confirmations are saved and
\* every confirm handler serving the order has run to its response, the order
\* has escrow_released true and status completed.
C25_ReleasedWhenSettled ==
    \A o \in 1 .. Len(orders) :
        (BothConfirmed(orders[o]) /\ Settled(o))
            => orders[o].escrow_released /\ orders[o].status = "completed"
\* The buyer's and the seller's confirm of one order, served by the two
\* handlers, have both responded and the order is released.
C25_Witness ==
    /\ AllIdle
    /\ \E p \in Procs, q \in Procs :
          /\ req[p].kind = "buyer" /\ req[q].kind = "seller" /\ req[p].id = req[q].id
          /\ resp[p] = "redirect back" /\ resp[q] = "redirect back"
          /\ Exists(req[p].id) /\ orders[req[p].id].escrow_released
          /\ orders[req[p].id].status = "completed"

\* The confirmation field of the other party.
OtherFlag(role) == IF role = "buyer" THEN "seller_confirmed" ELSE "buyer_confirmed"
\* The fields of an order no confirm may change.
Fixed(doc) ==
    <<doc.buyer_id, doc.product_id, doc.amount, doc.service_fee, doc.seller_amount,
      doc.payment_reference>>

\* C26: frame of confirm.  In every step of a confirm handler, also one that
\* saves from a document read before the other party's concurrent confirm,
\* the other party's flag and the order's buyer, product, amount, service_fee,
\* seller_amount and payment_reference stay as they are; the handler's own
\* flag changes only in its save, and escrow_released and status only in the
\* save of the release.
C26_ConfirmFrame ==
    [][\A p \in Procs :
          (Acts(p) /\ pc[p] # "idle" /\ req[p].kind \in Roles)
              => LET old == orders[req[p].id]
                     new == orders'[req[p].id]
                 IN  /\ new[OtherFlag(req[p].kind)] = old[OtherFlag(req[p].kind)]
                     /\ Fixed(new) = Fixed(old)
                     /\ new[Flag(req[p].kind)] # old[Flag(req[p].kind)]
                           => pc[p] = "confirm_save"
                     /\ (new.escrow_released # old.escrow_released \/ new.status # old.status)
                           => pc[p] = "release_save"]_vars
\* The seller's handler has saved its flag from a document it read before the
\* buyer's confirmation landed; the buyer's flag is in the store untouched.
C26_Witness ==
    \E p \in Procs :
        /\ pc[p] = "release_find" /\ req[p].kind = "seller"
        /\ ~order[p].buyer_confirmed
        /\ orders[req[p].id].buyer_confirmed /\ orders[req[p].id].seller_confirmed
        /\ Fixed(orders[req[p].id]) = Fixed(order[p])

\* C27: credit recipient and amount.  Every wallet write is the $inc of a
\* release; it adds the seller_amount stored on the order to the balance of
\* the seller of the order's product, leaves every other balance and the
\* order as they are, and the amount is the one stored on the order also when
\* it differs from what the product's price would give.
C27_CreditRecipientAndAmount ==
    [][/\ \A p \in Procs :
             (Acts(p) /\ pc[p] = "release_inc")
                 => /\ wallet' = [wallet EXCEPT ![SellerOf(req[p].id)] =
                                                 @ + orders[req[p].id].seller_amount]
                    /\ orders' = orders
       /\ wallet' # wallet => \E p \in Procs : Acts(p) /\ pc[p] = "release_inc"]_vars
\* A release has credited the seller of the order's product, and nobody else,
\* with a stored seller_amount that is not what the product's price gives.
C27_Witness ==
    \E p \in Procs :
        /\ pc[p] = "release_save"
        /\ orders[req[p].id].seller_amount # SellerAmount(ProductPrice[orders[req[p].id].product_id])
        /\ orders[req[p].id].seller_amount > 0
        /\ wallet[SellerOf(req[p].id)] = orders[req[p].id].seller_amount
        /\ \A u \in Users \ {SellerOf(req[p].id)} : wallet[u] = 0

C29_UnauthenticatedChangesNothing ==
    [][/\ (orders' # orders \/ wallet' # wallet)
            => \E p \in Procs : Acts(p) /\ req'[p].user # NoUser
       /\ \A o \in 1 .. Len(orders') : orders'[o].buyer_id # NoUser
       /\ \A p \in Procs :
             (req'[p].kind \in Roles /\ req'[p].user = NoUser)
                 => pc'[p] = "idle" /\ resp'[p] = "redirect /login"]_vars
\* A verify without a session user, of a payment that verified, has been
\* answered with the failure page, a confirm without one with the redirect,
\* and the store holds no order and no balance.
C29_Witness ==
    \E p, q \in Procs :
        /\ pc[p] = "idle" /\ req[p].kind = "verify" /\ req[p].user = NoUser
        /\ resp[p] = "Error processing order"
        /\ pc[q] = "idle" /\ req[q].kind \in Roles /\ req[q].user = NoUser
        /\ resp[q] = "redirect /login"
        /\ Len(orders) = 0
        /\ \A u \in Users : wallet[u] = 0
====
